---- MODULE Spec2Model ----
(***************************************************************************)
(* English-auction settlement engine                                       *)
(* (packages/contracts/programs/auction/src/lib.rs).                       *)
(*                                                                         *)
(* State: the Auction and Bid accounts, the token balances of every        *)
(* associated token account (owner, mint) and the ledger clock.  One       *)
(* action per instruction.  Each instruction has an operator *_result that *)
(* gives what it returns ("Ok" or the error); an instruction that returns  *)
(* an error leaves every account as it was (the ledger runtime discards    *)
(* the writes of a failed transaction), so the action is enabled only      *)
(* when the result is "Ok".                                                *)
(***************************************************************************)
EXTENDS Integers, FiniteSets, Sequences, TLC

(***************************************************************************)
(* Identities, token types and input domains                               *)
(***************************************************************************)
NoKey == "default"                       \* Pubkey::default()
Sellers == {"seller"}                    \* signers that call create_auction
Bidders == {"bidder1", "bidder2"}
Users == Sellers \cup Bidders            \* every key that can sign
AuctionKeys == {"A"}                \* addresses of Auction accounts
Mints == {"ASSET", "PAY"}
Owners == Users \cup AuctionKeys
\* Every owner has an associated token account for every mint (anyone can
\* create the associated token account of any owner, an auction included).
TokenAccounts == Owners \X Mints

\* u64 amounts are kept below U64_MODULUS, which stands for 2^64: the model
\* checker's integers are narrower than the program's
U64_MODULUS == 2^9

EXTENSION_THRESHOLD == 600               \* let extension_threshold = 600
MIN_DURATION == 3600                     \* end_time - start_time >= 3600

MaxTime == 4500                          \* the clock stops advancing here
TickSteps == {900, 3300}
AssetLot == 120
\* arguments of create_auction: <<asset_mint, payment_mint, asset_amount,
\* starting_price, reserve_price, min_bid_increment, start_time - now,
\* end_time - start_time>>; the three first are accepted (the third has an
\* increment near the largest u64: added to a current_bid of 100 it is
\* exactly 2^64, scaled U64_MODULUS), each other one breaks one requirement
CreateArgs ==
  { <<"ASSET", "PAY", AssetLot, 100, 150, 10, 0, 3600>>,
    <<"ASSET", "PAY", AssetLot, 100, 150, 10, 600, 3600>>,
    <<"ASSET", "PAY", AssetLot, 100, 150, U64_MODULUS - 100, 0, 3600>>,
    <<"ASSET", "ASSET", AssetLot, 100, 150, 10, 0, 3600>>,
    <<"ASSET", "PAY", 0, 100, 150, 10, 0, 3600>>,
    <<"ASSET", "PAY", AssetLot, 0, 150, 10, 0, 3600>>,
    <<"ASSET", "PAY", AssetLot, 100, 50, 10, 0, 3600>>,
    <<"ASSET", "PAY", AssetLot, 100, 150, 0, 0, 3600>>,
    <<"ASSET", "PAY", AssetLot, 100, 150, 10, -600, 3600>>,
    <<"ASSET", "PAY", AssetLot, 100, 150, 10, 0, 0>>,
    <<"ASSET", "PAY", AssetLot, 100, 150, 10, 0, 3300>>,
    <<"PAY", "ASSET", AssetLot, 100, 150, 10, 0, 3600>> }
BidAmounts == {0, 100, 105, 160}
ExtendOffsets == {0, 600}           \* new_end_time - end_time

\* balances before any auction exists
InitBal ==
  [t \in TokenAccounts |->
     CASE t = <<"seller", "ASSET">> -> AssetLot
       [] t = <<"bidder1", "PAY">> -> 160
       [] t = <<"bidder2", "PAY">> -> 160
       [] t = <<"bidder2", "ASSET">> -> 110
       [] OTHER -> 0]

(***************************************************************************)
(* Account structures                                                      *)
(***************************************************************************)
\* #[derive(Default)] pub struct Auction; `init` is the account discriminator
Auction ==
  [init |-> FALSE, seller |-> NoKey, asset_mint |-> NoKey, payment_mint |-> NoKey,
   asset_amount |-> 0, starting_price |-> 0, reserve_price |-> 0,
   min_bid_increment |-> 0, current_bid |-> 0, current_bidder |-> NoKey,
   start_time |-> 0, end_time |-> 0, status |-> "Created", total_bids |-> 0,
   created_at |-> 0]

\* #[derive(Default)] pub struct Bid (timestamp and bump, which no instruction
\* reads, are left out)
Bid ==
  [init |-> FALSE, auction |-> NoKey, bidder |-> NoKey, amount |-> 0,
   status |-> "Active"]

AuctionStatus == {"Created", "Active", "Settled", "Cancelled", "Failed"}
BidStatus == {"Active", "Outbid", "Won", "Refunded", "Cancelled"}

VARIABLES
  clock,      \* Clock::get()?.unix_timestamp
  auctions,   \* AuctionKeys -> Auction account
  bids,       \* AuctionKeys \X Users -> Bid account (PDA of auction and bidder)
  bal         \* TokenAccounts -> amount

vars == <<clock, auctions, bids, bal>>

(***************************************************************************)
(* token_2022::transfer_checked                                            *)
(***************************************************************************)
\* the transfer is accepted: source and destination hold `mint`, funds suffice
TransferOk(b, from, to, mint, amount) ==
  /\ from[2] = mint
  /\ to[2] = mint
  /\ b[from] >= amount

\* balances after an accepted transfer; the token program accepts a transfer
\* whose destination is the source account and moves nothing
Transfer(b, from, to, amount) ==
  IF from = to THEN b
  ELSE [b EXCEPT ![from] = @ - amount, ![to] = @ + amount]

\* associated token account of `owner` for `mint`
Ata(owner, mint) == <<owner, mint>>

Init ==
  /\ clock = 0
  /\ auctions = [a \in AuctionKeys |-> Auction]
  /\ bids = [k \in AuctionKeys \X Users |-> Bid]
  /\ bal = InitBal

\* the ledger clock advances between instructions (instructions compare the
\* clock only with times given relative to it, so time starts to count with
\* the first auction)
Tick ==
  \E d \in TickSteps :
    /\ \E a \in AuctionKeys : auctions[a].init
    /\ clock + d <= MaxTime
    /\ clock' = clock + d
    /\ UNCHANGED <<auctions, bids, bal>>

(***************************************************************************)
(* create_auction                                                          *)
(***************************************************************************)
\* mutant: the Auction account is `init_if_needed`, an existing one is reset
create_auction_reinit(a, seller, asset_mint, payment_mint, asset_amount, starting_price, reserve_price, min_bid_increment, start_time, end_time) ==
  CASE asset_mint = payment_mint -> "AccountAlreadyInUse"
    [] ~(asset_amount > 0) -> "InvalidAmount"
    [] ~(starting_price > 0) -> "InvalidPrice"
    [] ~(reserve_price >= starting_price) -> "InvalidReservePrice"
    [] ~(min_bid_increment > 0) -> "InvalidIncrement"
    [] ~(start_time >= clock) -> "InvalidStartTime"
    [] ~(end_time > start_time) -> "InvalidEndTime"
    [] ~(end_time - start_time >= MIN_DURATION) -> "AuctionTooShort"
    [] ~TransferOk(bal, Ata(seller, asset_mint), Ata(a, asset_mint),
                   asset_mint, asset_amount) -> "TransferFailed"
    [] OTHER -> "Ok"

\* mutant: the requirement of line 27 (reserve not below start) is left out
create_auction_low_reserve(a, seller, asset_mint, payment_mint, asset_amount, starting_price, reserve_price, min_bid_increment, start_time, end_time) ==
  CASE auctions[a].init -> "AccountAlreadyInUse"
    [] asset_mint = payment_mint -> "AccountAlreadyInUse"
    [] ~(asset_amount > 0) -> "InvalidAmount"
    [] ~(starting_price > 0) -> "InvalidPrice"
    [] ~(min_bid_increment > 0) -> "InvalidIncrement"
    [] ~(start_time >= clock) -> "InvalidStartTime"
    [] ~(end_time > start_time) -> "InvalidEndTime"
    [] ~(end_time - start_time >= MIN_DURATION) -> "AuctionTooShort"
    [] ~TransferOk(bal, Ata(seller, asset_mint), Ata(a, asset_mint),
                   asset_mint, asset_amount) -> "TransferFailed"
    [] OTHER -> "Ok"

\* mutant: the requirement of line 33 (at least one hour) is left out
create_auction_any_duration(a, seller, asset_mint, payment_mint, asset_amount, starting_price, reserve_price, min_bid_increment, start_time, end_time) ==
  CASE auctions[a].init -> "AccountAlreadyInUse"
    [] asset_mint = payment_mint -> "AccountAlreadyInUse"
    [] ~(asset_amount > 0) -> "InvalidAmount"
    [] ~(starting_price > 0) -> "InvalidPrice"
    [] ~(reserve_price >= starting_price) -> "InvalidReservePrice"
    [] ~(min_bid_increment > 0) -> "InvalidIncrement"
    [] ~(start_time >= clock) -> "InvalidStartTime"
    [] ~(end_time > start_time) -> "InvalidEndTime"
    [] ~TransferOk(bal, Ata(seller, asset_mint), Ata(a, asset_mint),
                   asset_mint, asset_amount) -> "TransferFailed"
    [] OTHER -> "Ok"

create_auction_result(a, seller, asset_mint, payment_mint, asset_amount, starting_price, reserve_price, min_bid_increment, start_time, end_time) ==
  CASE auctions[a].init -> "AccountAlreadyInUse"
    [] asset_mint = payment_mint -> "AccountAlreadyInUse"
    [] ~(asset_amount > 0) -> "InvalidAmount"
    [] ~(starting_price > 0) -> "InvalidPrice"
    [] ~(reserve_price >= starting_price) -> "InvalidReservePrice"
    [] ~(min_bid_increment > 0) -> "InvalidIncrement"
    [] ~(start_time >= clock) -> "InvalidStartTime"
    [] ~(end_time > start_time) -> "InvalidEndTime"
    [] ~(end_time - start_time >= MIN_DURATION) -> "AuctionTooShort"
    [] ~TransferOk(bal, Ata(seller, asset_mint), Ata(a, asset_mint),
                   asset_mint, asset_amount) -> "TransferFailed"
    [] OTHER -> "Ok"

\* mutant: the status is not advanced after the deposit (line 69 left out)
create_auction_stays_created(a, seller, asset_mint, payment_mint, asset_amount, starting_price, reserve_price, min_bid_increment, start_time, end_time) ==
  LET res == create_auction_result(a, seller, asset_mint, payment_mint,
                 asset_amount, starting_price, reserve_price,
                 min_bid_increment, start_time, end_time)
  IN /\ res = "Ok"
     /\ UNCHANGED <<clock, bids>>
     /\ auctions' = [auctions EXCEPT ![a] =
                  [init |-> TRUE, seller |-> seller, asset_mint |-> asset_mint,
                   payment_mint |-> payment_mint, asset_amount |-> asset_amount,
                   starting_price |-> starting_price,
                   reserve_price |-> reserve_price,
                   min_bid_increment |-> min_bid_increment,
                   current_bid |-> 0, current_bidder |-> NoKey,
                   start_time |-> start_time, end_time |-> end_time,
                   status |-> "Created", total_bids |-> 0,
                   created_at |-> clock]]
     /\ bal' = Transfer(bal, Ata(seller, asset_mint), Ata(a, asset_mint),
                        asset_amount)

create_auction(a, seller, asset_mint, payment_mint, asset_amount, starting_price, reserve_price, min_bid_increment, start_time, end_time) ==
  LET res == create_auction_result(a, seller, asset_mint, payment_mint,
                 asset_amount, starting_price, reserve_price,
                 min_bid_increment, start_time, end_time)
  IN /\ res = "Ok"
     /\ UNCHANGED <<clock, bids>>
     /\ auctions' = [auctions EXCEPT ![a] =
                  [init |-> TRUE, seller |-> seller, asset_mint |-> asset_mint,
                   payment_mint |-> payment_mint, asset_amount |-> asset_amount,
                   starting_price |-> starting_price,
                   reserve_price |-> reserve_price,
                   min_bid_increment |-> min_bid_increment,
                   current_bid |-> 0, current_bidder |-> NoKey,
                   start_time |-> start_time, end_time |-> end_time,
                   status |-> "Active", total_bids |-> 0,
                   created_at |-> clock]]
     /\ bal' = Transfer(bal, Ata(seller, asset_mint), Ata(a, asset_mint),
                        asset_amount)

CreateArg(a, seller, x) ==
  create_auction(a, seller, x[1], x[2], x[3], x[4], x[5], x[6],
                 clock + x[7], clock + x[7] + x[8])

CreateAuction(K) ==
  \E a \in K, seller \in Sellers, x \in CreateArgs : CreateArg(a, seller, x)

(***************************************************************************)
(* place_bid                                                               *)
(***************************************************************************)
\* line 104: auction.current_bid + auction.min_bid_increment exceeds u64
floor_overflows(auction) ==
  /\ auction.current_bid # 0
  /\ auction.current_bid + auction.min_bid_increment >= U64_MODULUS

\* lines 99-107: the smallest bid the auction accepts; the u64 sum wraps in a
\* build without overflow checks
bid_floor(auction) ==
  IF auction.current_bid = 0
  THEN auction.starting_price
  ELSE (auction.current_bid + auction.min_bid_increment) % U64_MODULUS

\* lines 109-110: the previous leader is refunded
has_leader(auction) ==
  auction.current_bidder # NoKey /\ auction.current_bid > 0

\* balances after the refund of the previous leader (lines 109-142)
place_bid_refund(a, payment_mint, previous_bidder_payment_account) ==
  IF has_leader(auctions[a])
  THEN Transfer(bal, Ata(a, payment_mint), previous_bidder_payment_account,
                auctions[a].current_bid)
  ELSE bal

\* mutant: the end time is reset on every bid, also far from the end
anti_snipe_every_bid(end_time, now) == now + EXTENSION_THRESHOLD

\* mutant: the extension is counted from the old end time
anti_snipe_from_end(end_time, now) ==
  IF end_time - now < EXTENSION_THRESHOLD
  THEN end_time + EXTENSION_THRESHOLD
  ELSE end_time

\* lines 175-184: the end time after an accepted bid at time `now`
anti_snipe(end_time, now) ==
  IF end_time - now < EXTENSION_THRESHOLD
  THEN now + EXTENSION_THRESHOLD
  ELSE end_time

\* mutant: the requirement that the bidder is not the seller is left out
place_bid_checks_seller_allowed(a, bidder, bid_amount, overflow_checks) ==
  LET auction == auctions[a] IN
  CASE bids[<<a, bidder>>].init -> "AccountAlreadyInUse"
    [] ~(auction.status = "Active") -> "AuctionNotActive"
    [] ~(clock >= auction.start_time) -> "AuctionNotStarted"
    [] ~(clock < auction.end_time) -> "AuctionEnded"
    [] overflow_checks /\ floor_overflows(auction) -> "Panic"
    [] ~(bid_amount >= bid_floor(auction)) -> "BidTooLow"
    [] OTHER -> "Ok"

\* mutant: the Bid account is `init_if_needed`, a bidder's record is reused
place_bid_checks_init_if_needed(a, bidder, bid_amount, overflow_checks) ==
  LET auction == auctions[a] IN
  CASE ~(auction.status = "Active") -> "AuctionNotActive"
    [] ~(clock >= auction.start_time) -> "AuctionNotStarted"
    [] ~(clock < auction.end_time) -> "AuctionEnded"
    [] ~(bidder # auction.seller) -> "SellerCannotBid"
    [] overflow_checks /\ floor_overflows(auction) -> "Panic"
    [] ~(bid_amount >= bid_floor(auction)) -> "BidTooLow"
    [] OTHER -> "Ok"

\* mutant: the requirement on the status (line 91) is left out
place_bid_checks_any_status(a, bidder, bid_amount, overflow_checks) ==
  LET auction == auctions[a] IN
  CASE bids[<<a, bidder>>].init -> "AccountAlreadyInUse"
    [] ~(clock >= auction.start_time) -> "AuctionNotStarted"
    [] ~(clock < auction.end_time) -> "AuctionEnded"
    [] ~(bidder # auction.seller) -> "SellerCannotBid"
    [] overflow_checks /\ floor_overflows(auction) -> "Panic"
    [] ~(bid_amount >= bid_floor(auction)) -> "BidTooLow"
    [] OTHER -> "Ok"

\* the Bid account `init` and the requirements of lines 91-107;
\* overflow_checks is the build profile's setting: with it the overflowing sum
\* of line 104 panics, without it the sum wraps
place_bid_checks(a, bidder, bid_amount, overflow_checks) ==
  LET auction == auctions[a] IN
  CASE bids[<<a, bidder>>].init -> "AccountAlreadyInUse"
    [] ~(auction.status = "Active") -> "AuctionNotActive"
    [] ~(clock >= auction.start_time) -> "AuctionNotStarted"
    [] ~(clock < auction.end_time) -> "AuctionEnded"
    [] ~(bidder # auction.seller) -> "SellerCannotBid"
    [] overflow_checks /\ floor_overflows(auction) -> "Panic"
    [] ~(bid_amount >= bid_floor(auction)) -> "BidTooLow"
    [] OTHER -> "Ok"

place_bid_result(a, bidder, payment_mint, previous_bidder_payment_account, bid_amount, overflow_checks) ==
  LET auction == auctions[a] IN
  CASE place_bid_checks(a, bidder, bid_amount, overflow_checks) # "Ok"
         -> place_bid_checks(a, bidder, bid_amount, overflow_checks)
    [] has_leader(auction) /\
       ~TransferOk(bal, Ata(a, payment_mint), previous_bidder_payment_account,
                   payment_mint, auction.current_bid) -> "TransferFailed"
    [] ~TransferOk(place_bid_refund(a, payment_mint,
                                    previous_bidder_payment_account),
                   Ata(bidder, payment_mint), Ata(a, payment_mint),
                   payment_mint, bid_amount) -> "TransferFailed"
    [] OTHER -> "Ok"

\* mutant: the result of the deposit (line 155) is dropped instead of being
\* propagated with `?`: a failed deposit no longer aborts the instruction
place_bid_deposit_unchecked(a, bidder, payment_mint, previous_bidder_payment_account, bid_amount, overflow_checks) ==
  LET auction == auctions[a]
      b1 == place_bid_refund(a, payment_mint, previous_bidder_payment_account)
  IN /\ auction.init
     /\ place_bid_checks(a, bidder, bid_amount, overflow_checks) = "Ok"
     /\ has_leader(auction) =>
          TransferOk(bal, Ata(a, payment_mint), previous_bidder_payment_account,
                     payment_mint, auction.current_bid)
     /\ UNCHANGED clock
     /\ bal' = IF TransferOk(b1, Ata(bidder, payment_mint),
                             Ata(a, payment_mint), payment_mint, bid_amount)
               THEN Transfer(b1, Ata(bidder, payment_mint),
                             Ata(a, payment_mint), bid_amount)
               ELSE b1
     /\ bids' = [bids EXCEPT ![<<a, bidder>>] =
          [init |-> TRUE, auction |-> a, bidder |-> bidder,
           amount |-> bid_amount, status |-> "Active"]]
     /\ auctions' = [auctions EXCEPT ![a] =
          [auction EXCEPT !.current_bid = bid_amount,
                          !.current_bidder = bidder,
                          !.total_bids = @ + 1,
                          !.end_time = anti_snipe(@, clock)]]

\* mutant: the bid counter is not advanced (line 173 left out)
place_bid_uncounted(a, bidder, payment_mint, previous_bidder_payment_account, bid_amount, overflow_checks) ==
  LET auction == auctions[a]
      res == place_bid_result(a, bidder, payment_mint,
                              previous_bidder_payment_account, bid_amount,
                              overflow_checks)
  IN /\ auction.init
     /\ res = "Ok"
     /\ UNCHANGED clock
     /\ bal' = Transfer(place_bid_refund(a, payment_mint,
                                         previous_bidder_payment_account),
                        Ata(bidder, payment_mint), Ata(a, payment_mint),
                        bid_amount)
     /\ bids' = [bids EXCEPT ![<<a, bidder>>] =
          [init |-> TRUE, auction |-> a, bidder |-> bidder,
           amount |-> bid_amount, status |-> "Active"]]
     /\ auctions' = [auctions EXCEPT ![a] =
          [auction EXCEPT !.current_bid = bid_amount,
                          !.current_bidder = bidder,
                          !.end_time = anti_snipe(@, clock)]]

\* mutant: the new bid is written into the record of the previous leader
place_bid_reuses_record(a, bidder, payment_mint, previous_bidder_payment_account, bid_amount, overflow_checks) ==
  LET auction == auctions[a]
      res == place_bid_result(a, bidder, payment_mint,
                              previous_bidder_payment_account, bid_amount,
                              overflow_checks)
      owner == IF has_leader(auction) THEN auction.current_bidder ELSE bidder
  IN /\ auction.init
     /\ res = "Ok"
     /\ UNCHANGED clock
     /\ bal' = Transfer(place_bid_refund(a, payment_mint,
                                         previous_bidder_payment_account),
                        Ata(bidder, payment_mint), Ata(a, payment_mint),
                        bid_amount)
     /\ bids' = [bids EXCEPT ![<<a, owner>>] =
          [init |-> TRUE, auction |-> a, bidder |-> bidder,
           amount |-> bid_amount, status |-> "Active"]]
     /\ auctions' = [auctions EXCEPT ![a] =
          [auction EXCEPT !.current_bid = bid_amount,
                          !.current_bidder = bidder,
                          !.total_bids = @ + 1,
                          !.end_time = anti_snipe(@, clock)]]

place_bid(a, bidder, payment_mint, previous_bidder_payment_account, bid_amount, overflow_checks) ==
  LET auction == auctions[a]
      res == place_bid_result(a, bidder, payment_mint,
                              previous_bidder_payment_account, bid_amount,
                              overflow_checks)
  IN /\ auction.init
     /\ res = "Ok"
     /\ UNCHANGED clock
     /\ bal' = Transfer(place_bid_refund(a, payment_mint,
                                         previous_bidder_payment_account),
                        Ata(bidder, payment_mint), Ata(a, payment_mint),
                        bid_amount)
     /\ bids' = [bids EXCEPT ![<<a, bidder>>] =
          [init |-> TRUE, auction |-> a, bidder |-> bidder,
           amount |-> bid_amount, status |-> "Active"]]
     /\ auctions' = [auctions EXCEPT ![a] =
          [auction EXCEPT !.current_bid = bid_amount,
                          !.current_bidder = bidder,
                          !.total_bids = @ + 1,
                          !.end_time = anti_snipe(@, clock)]]

PlaceBid(K) ==
  \E a \in K, bidder \in Users, bid_amount \in BidAmounts,
     overflow_checks \in BOOLEAN :
    /\ auctions[a].init
    /\ place_bid_checks(a, bidder, bid_amount, overflow_checks) = "Ok"
    /\ \E payment_mint \in Mints,
          previous_bidder_payment_account \in TokenAccounts :
         place_bid(a, bidder, payment_mint, previous_bidder_payment_account,
                   bid_amount, overflow_checks)

(***************************************************************************)
(* cancel_bid                                                              *)
(***************************************************************************)
\* the constraints of the CancelBid accounts (lines 630-644), checked before
\* the handler runs: `bid_key` is the Bid account the caller passes; it must
\* exist and be the account derived from the auction's and the signer's keys
cancel_bid_accounts(a, bidder, bid_key) ==
  CASE ~bids[bid_key].init -> "AccountNotInitialized"
    [] bid_key # <<a, bidder>> -> "ConstraintSeeds"
    [] bids[bid_key].bidder # bidder -> "ConstraintHasOne"
    [] OTHER -> "Ok"

\* the handler (lines 198-220) on the signer's own Bid account
cancel_bid_result(a, bidder) ==
  LET bid == bids[<<a, bidder>>]
      auction == auctions[a]
  IN CASE ~bid.init -> "AccountNotInitialized"
       [] ~(bid.bidder = bidder) -> "Unauthorized"
       [] ~(bid.status = "Active") -> "BidNotActive"
       [] ~(auction.current_bidder # bid.bidder \/ auction.status = "Cancelled")
            -> "CannotCancelWinningBid"
       [] OTHER -> "Ok"

\* mutant: cancelling pays the Bid's amount back out of the payment vault
cancel_bid_with_refund(a, bidder) ==
  LET res == cancel_bid_result(a, bidder)
      vault == Ata(a, auctions[a].payment_mint)
      amount == bids[<<a, bidder>>].amount
  IN /\ auctions[a].init
     /\ res = "Ok"
     /\ UNCHANGED <<clock, auctions>>
     /\ bal' = IF bal[vault] >= amount
               THEN Transfer(bal, vault, Ata(bidder, auctions[a].payment_mint),
                             amount)
               ELSE bal
     /\ bids' = [bids EXCEPT ![<<a, bidder>>].status = "Cancelled"]

cancel_bid(a, bidder) ==
  LET res == cancel_bid_result(a, bidder)
  IN /\ auctions[a].init
     /\ res = "Ok"
     /\ UNCHANGED <<clock, auctions, bal>>
     /\ bids' = [bids EXCEPT ![<<a, bidder>>].status = "Cancelled"]

CancelBid(K) ==
  \E a \in K, bidder \in Users : cancel_bid(a, bidder)

(***************************************************************************)
(* settle_auction                                                          *)
(***************************************************************************)
\* line 240: the reserve price was met
reserve_met(auction) ==
  auction.current_bid >= auction.reserve_price /\ auction.current_bidder # NoKey

\* destination of the asset leg and of the payment leg on each branch
settle_asset_to(auction, winner_asset_account, seller_asset_account) ==
  IF reserve_met(auction) THEN winner_asset_account ELSE seller_asset_account

settle_payment_to(auction, winner_payment_account, seller_payment_account) ==
  IF reserve_met(auction) THEN seller_payment_account ELSE winner_payment_account

\* the payment leg runs: always when the reserve was met, else only with a leader
settle_pays(auction) == reserve_met(auction) \/ has_leader(auction)

\* balances after the asset leg
settle_asset_leg(a, asset_mint, asset_to) ==
  Transfer(bal, Ata(a, asset_mint), asset_to, auctions[a].asset_amount)

\* mutant: the requirement on the clock (line 228) is left out
settle_auction_checks_early(a) ==
  LET auction == auctions[a] IN
  CASE ~(auction.status = "Active") -> "AuctionNotActive"
    [] OTHER -> "Ok"

\* the requirements of lines 227-228
settle_auction_checks(a) ==
  LET auction == auctions[a] IN
  CASE ~(auction.status = "Active") -> "AuctionNotActive"
    [] ~(clock >= auction.end_time) -> "AuctionNotEnded"
    [] OTHER -> "Ok"

settle_auction_result(a, asset_mint, payment_mint, asset_to, payment_to) ==
  LET auction == auctions[a] IN
  CASE settle_auction_checks(a) # "Ok" -> settle_auction_checks(a)
    [] ~TransferOk(bal, Ata(a, asset_mint), asset_to, asset_mint,
                   auction.asset_amount) -> "TransferFailed"
    [] settle_pays(auction) /\
       ~TransferOk(settle_asset_leg(a, asset_mint, asset_to),
                   Ata(a, payment_mint), payment_to, payment_mint,
                   auction.current_bid) -> "TransferFailed"
    [] OTHER -> "Ok"

\* mutant: only the seller may settle
settle_auction_by_seller(a, settler, asset_mint, payment_mint, winner_asset_account, winner_payment_account, seller_asset_account, seller_payment_account) ==
  LET auction == auctions[a]
      asset_to == settle_asset_to(auction, winner_asset_account,
                                  seller_asset_account)
      payment_to == settle_payment_to(auction, winner_payment_account,
                                      seller_payment_account)
      res == settle_auction_result(a, asset_mint, payment_mint, asset_to,
                                   payment_to)
      b1 == settle_asset_leg(a, asset_mint, asset_to)
  IN /\ auction.init
     /\ settler = auction.seller
     /\ res = "Ok"
     /\ UNCHANGED <<clock, bids>>
     /\ bal' = IF settle_pays(auction)
               THEN Transfer(b1, Ata(a, payment_mint), payment_to,
                             auction.current_bid)
               ELSE b1
     /\ auctions' = [auctions EXCEPT ![a].status =
          IF reserve_met(auction) THEN "Settled" ELSE "Failed"]

\* mutant: the settlement clears the leader of the auction
settle_auction_clears_leader(a, settler, asset_mint, payment_mint, winner_asset_account, winner_payment_account, seller_asset_account, seller_payment_account) ==
  LET auction == auctions[a]
      asset_to == settle_asset_to(auction, winner_asset_account,
                                  seller_asset_account)
      payment_to == settle_payment_to(auction, winner_payment_account,
                                      seller_payment_account)
      res == settle_auction_result(a, asset_mint, payment_mint, asset_to,
                                   payment_to)
      b1 == settle_asset_leg(a, asset_mint, asset_to)
  IN /\ auction.init
     /\ res = "Ok"
     /\ UNCHANGED <<clock, bids>>
     /\ bal' = IF settle_pays(auction)
               THEN Transfer(b1, Ata(a, payment_mint), payment_to,
                             auction.current_bid)
               ELSE b1
     /\ auctions' = [auctions EXCEPT ![a] =
          [auction EXCEPT !.status = IF reserve_met(auction)
                                     THEN "Settled" ELSE "Failed",
                          !.current_bid = 0,
                          !.current_bidder = NoKey]]

\* mutant: a successful settlement marks the winner's Bid as Won
settle_auction_marks_won(a, settler, asset_mint, payment_mint, winner_asset_account, winner_payment_account, seller_asset_account, seller_payment_account) ==
  LET auction == auctions[a]
      asset_to == settle_asset_to(auction, winner_asset_account,
                                  seller_asset_account)
      payment_to == settle_payment_to(auction, winner_payment_account,
                                      seller_payment_account)
      res == settle_auction_result(a, asset_mint, payment_mint, asset_to,
                                   payment_to)
      b1 == settle_asset_leg(a, asset_mint, asset_to)
  IN /\ auction.init
     /\ res = "Ok"
     /\ UNCHANGED clock
     /\ bids' = IF reserve_met(auction)
                THEN [bids EXCEPT ![<<a, auction.current_bidder>>].status = "Won"]
                ELSE bids
     /\ bal' = IF settle_pays(auction)
               THEN Transfer(b1, Ata(a, payment_mint), payment_to,
                             auction.current_bid)
               ELSE b1
     /\ auctions' = [auctions EXCEPT ![a].status =
          IF reserve_met(auction) THEN "Settled" ELSE "Failed"]

settle_auction(a, settler, asset_mint, payment_mint, winner_asset_account, winner_payment_account, seller_asset_account, seller_payment_account) ==
  LET auction == auctions[a]
      asset_to == settle_asset_to(auction, winner_asset_account,
                                  seller_asset_account)
      payment_to == settle_payment_to(auction, winner_payment_account,
                                      seller_payment_account)
      res == settle_auction_result(a, asset_mint, payment_mint, asset_to,
                                   payment_to)
      b1 == settle_asset_leg(a, asset_mint, asset_to)
  IN /\ auction.init
     /\ res = "Ok"
     /\ UNCHANGED <<clock, bids>>
     /\ bal' = IF settle_pays(auction)
               THEN Transfer(b1, Ata(a, payment_mint), payment_to,
                             auction.current_bid)
               ELSE b1
     /\ auctions' = [auctions EXCEPT ![a].status =
          IF reserve_met(auction) THEN "Settled" ELSE "Failed"]

\* each branch uses one asset destination and one payment destination, so the
\* two accounts the branch does not use are given the same values
SettleAuction(K) ==
  \E a \in K, settler \in Users :
    /\ auctions[a].init
    /\ settle_auction_checks(a) = "Ok"
    /\ \E asset_mint \in Mints, payment_mint \in Mints,
          asset_account \in TokenAccounts, payment_account \in TokenAccounts :
         settle_auction(a, settler, asset_mint, payment_mint, asset_account,
                        payment_account, asset_account, payment_account)

(***************************************************************************)
(* cancel_auction                                                          *)
(***************************************************************************)
\* mutant: the requirement of lines 355-358 (no bid in escrow) is left out
cancel_auction_with_bids(a, authority, asset_mint) ==
  LET auction == auctions[a] IN
  CASE ~(auction.status = "Created" \/ auction.status = "Active")
         -> "CannotCancelAuction"
    [] ~(auction.seller = authority) -> "Unauthorized"
    [] ~TransferOk(bal, Ata(a, asset_mint), Ata(authority, asset_mint),
                   asset_mint, auction.asset_amount) -> "TransferFailed"
    [] OTHER -> "Ok"

cancel_auction_result(a, authority, asset_mint) ==
  LET auction == auctions[a] IN
  CASE ~(auction.status = "Created" \/ auction.status = "Active")
         -> "CannotCancelAuction"
    [] ~(auction.seller = authority) -> "Unauthorized"
    [] auction.total_bids > 0 /\ ~(auction.current_bid = 0) -> "HasActiveBids"
    [] ~TransferOk(bal, Ata(a, asset_mint), Ata(authority, asset_mint),
                   asset_mint, auction.asset_amount) -> "TransferFailed"
    [] OTHER -> "Ok"

cancel_auction(a, authority, asset_mint) ==
  LET auction == auctions[a]
      res == cancel_auction_result(a, authority, asset_mint)
  IN /\ auction.init
     /\ res = "Ok"
     /\ UNCHANGED <<clock, bids>>
     /\ bal' = Transfer(bal, Ata(a, asset_mint), Ata(authority, asset_mint),
                        auction.asset_amount)
     /\ auctions' = [auctions EXCEPT ![a].status = "Cancelled"]

CancelAuction(K) ==
  \E a \in K, authority \in Users, asset_mint \in Mints :
    cancel_auction(a, authority, asset_mint)

(***************************************************************************)
(* extend_auction                                                          *)
(***************************************************************************)
extend_auction_result(a, seller, new_end_time) ==
  LET auction == auctions[a] IN
  CASE ~(auction.seller = seller) -> "ConstraintHasOne"
    [] ~(auction.status = "Active") -> "AuctionNotActive"
    [] ~(auction.seller = seller) -> "Unauthorized"
    [] ~(new_end_time > auction.end_time) -> "InvalidEndTime"
    [] ~(clock < auction.end_time) -> "AuctionEnded"
    [] OTHER -> "Ok"

extend_auction(a, seller, new_end_time) ==
  LET res == extend_auction_result(a, seller, new_end_time)
  IN /\ auctions[a].init
     /\ res = "Ok"
     /\ UNCHANGED <<clock, bids, bal>>
     /\ auctions' = [auctions EXCEPT ![a].end_time = new_end_time]

ExtendAuction(K) ==
  \E a \in K, seller \in Users, d \in ExtendOffsets :
    /\ auctions[a].end_time + d <= MaxTime
    /\ extend_auction(a, seller, auctions[a].end_time + d)

(***************************************************************************)
(* Specification: one auction account                                      *)
(***************************************************************************)
Next ==
  \/ Tick
  \/ CreateAuction({"A"})
  \/ PlaceBid({"A"})
  \/ CancelBid({"A"})
  \/ SettleAuction({"A"})
  \/ CancelAuction({"A"})
  \/ ExtendAuction({"A"})

Spec == Init /\ [][Next]_vars

(***************************************************************************)
(* Specification with fairness: the clock keeps advancing and a settlement *)
(* that stays possible is eventually sent by someone.  The instructions    *)
(* compare the clock only with the times of the auction, so the passing of *)
(* d time units is the same as moving every time of the auction d units    *)
(* towards the past while the clock keeps its value; that keeps the state  *)
(* space finite in a behaviour where time never stops.  Times more than    *)
(* Past units back are all alike for every instruction: they are kept at   *)
(* -Past.                                                                  *)
(***************************************************************************)
Past == 900

earlier(t, d) == IF t - d < clock - Past THEN clock - Past ELSE t - d

TickShift ==
  \E d \in TickSteps :
    /\ \E a \in AuctionKeys : auctions[a].init
    /\ auctions' = [a \in AuctionKeys |->
         IF auctions[a].init
         THEN [auctions[a] EXCEPT !.start_time = earlier(@, d),
                                  !.end_time = earlier(@, d),
                                  !.created_at = earlier(@, d)]
         ELSE auctions[a]]
    /\ UNCHANGED <<clock, bids, bal>>

NextLive ==
  \/ TickShift
  \/ CreateAuction({"A"})
  \/ PlaceBid({"A"})
  \/ CancelBid({"A"})
  \/ SettleAuction({"A"})
  \/ CancelAuction({"A"})
  \/ ExtendAuction({"A"})

LiveSpec ==
  /\ Init
  /\ [][NextLive]_vars
  /\ WF_vars(TickShift)
  /\ WF_vars(SettleAuction({"A"}))

(***************************************************************************)
(* Specification with two auction accounts, A and B, on one ledger: the    *)
(* same instructions, each on either auction, with every token account of  *)
(* the ledger (the other auction's vaults included) as a possible value of *)
(* the accounts the caller passes.  The inputs are fewer than in Spec.     *)
(***************************************************************************)
AuctionKeys2 == {"A", "B"}
TokenAccounts2 == (Users \cup AuctionKeys2) \X Mints
TwoSellers == {"seller", "bidder2"}      \* the holders of ASSET
TwoLot == 60                             \* asset_amount of both auctions
TwoBidAmounts == {100, 160}
TwoMaxTime == MIN_DURATION               \* the clock stops advancing here

TwoInit ==
  /\ clock = 0
  /\ auctions = [a \in AuctionKeys2 |-> Auction]
  /\ bids = [k \in AuctionKeys2 \X Users |-> Bid]
  /\ bal = [t \in TokenAccounts2 |->
              IF t \in TokenAccounts THEN InitBal[t] ELSE 0]

TwoTick ==
  /\ \E a \in AuctionKeys2 : auctions[a].init
  /\ clock + MIN_DURATION <= TwoMaxTime
  /\ clock' = clock + MIN_DURATION
  /\ UNCHANGED <<auctions, bids, bal>>

\* the address of an Auction account is derived from the seller, the asset
\* mint and the clock: two auctions differ in one of them
auction_seeds_free(a, seller, asset_mint) ==
  \A o \in AuctionKeys2 \ {a} :
    auctions[o].init =>
      <<auctions[o].seller, auctions[o].asset_mint, auctions[o].created_at>>
        # <<seller, asset_mint, clock>>

TwoCreateAuction ==
  \E a \in AuctionKeys2, seller \in TwoSellers :
    /\ auction_seeds_free(a, seller, "ASSET")
    /\ create_auction(a, seller, "ASSET", "PAY", TwoLot, 100, 150, 10,
                      clock, clock + MIN_DURATION)

TwoPlaceBid ==
  \E a \in AuctionKeys2, bidder \in Users, bid_amount \in TwoBidAmounts,
     overflow_checks \in BOOLEAN :
    /\ auctions[a].init
    /\ place_bid_checks(a, bidder, bid_amount, overflow_checks) = "Ok"
    /\ \E payment_mint \in Mints,
          previous_bidder_payment_account \in TokenAccounts2 :
         place_bid(a, bidder, payment_mint, previous_bidder_payment_account,
                   bid_amount, overflow_checks)

TwoCancelBid ==
  \E a \in AuctionKeys2, bidder \in Users : cancel_bid(a, bidder)

TwoSettleAuction ==
  \E a \in AuctionKeys2, settler \in Users :
    /\ auctions[a].init
    /\ settle_auction_checks(a) = "Ok"
    /\ \E asset_mint \in Mints, payment_mint \in Mints,
          asset_account \in TokenAccounts2, payment_account \in TokenAccounts2 :
         settle_auction(a, settler, asset_mint, payment_mint, asset_account,
                        payment_account, asset_account, payment_account)

TwoCancelAuction ==
  \E a \in AuctionKeys2, authority \in Users, asset_mint \in Mints :
    cancel_auction(a, authority, asset_mint)

TwoExtendAuction ==
  \E a \in AuctionKeys2, seller \in Users :
    /\ auctions[a].end_time
         < auctions[a].start_time + MIN_DURATION + EXTENSION_THRESHOLD
    /\ extend_auction(a, seller, auctions[a].end_time + EXTENSION_THRESHOLD)

TwoNext ==
  \/ TwoTick
  \/ TwoCreateAuction
  \/ TwoPlaceBid
  \/ TwoCancelBid
  \/ TwoSettleAuction
  \/ TwoCancelAuction
  \/ TwoExtendAuction

TwoSpec == TwoInit /\ [][TwoNext]_vars

(***************************************************************************)
(* Vocabulary of the properties                                            *)
(***************************************************************************)
Terminal == {"Settled", "Failed", "Cancelled"}

\* the two vaults of an auction: its token accounts for the recorded mints
asset_vault(a) == bal[Ata(a, auctions[a].asset_mint)]
payment_vault(a) == bal[Ata(a, auctions[a].payment_mint)]

\* asset quantity the seller has got back since the deposit of create_auction
returned_to_seller(a) ==
  LET t == Ata(auctions[a].seller, auctions[a].asset_mint)
  IN bal[t] - (InitBal[t] - auctions[a].asset_amount)

\* the step is an accepted place_bid on a
Placed(a) == auctions'[a].total_bids = auctions[a].total_bids + 1

\* the step is a successful settle_auction on a
SettledStep(a) ==
  auctions[a].status = "Active" /\ auctions'[a].status \in {"Settled", "Failed"}

(***************************************************************************)
(* C1: in every reachable state the balance of the auction's payment vault *)
(* equals the auction's current_bid, terminal states included.             *)
(***************************************************************************)
C1_PaymentVaultEqualsCurrentBid ==
  \A a \in AuctionKeys :
    auctions[a].init => payment_vault(a) = auctions[a].current_bid

(***************************************************************************)
(* C2: in every reachable state the asset vault balance plus the asset     *)
(* quantity returned to the seller equals asset_amount.                    *)
(***************************************************************************)
C2_AssetVaultPlusReturned ==
  \A a \in AuctionKeys :
    auctions[a].init =>
      asset_vault(a) + returned_to_seller(a) = auctions[a].asset_amount

(***************************************************************************)
(* C3: while the auction is Active the asset vault holds exactly           *)
(* asset_amount; only a step that leaves Active (settle_auction or         *)
(* cancel_auction) debits the vault, and it empties it.                    *)
(***************************************************************************)
C3_AssetCustody ==
  [][\A a \in AuctionKeys :
       /\ auctions'[a].init /\ auctions'[a].status = "Active"
            => asset_vault(a)' = auctions'[a].asset_amount
       /\ auctions[a].init /\ asset_vault(a)' < asset_vault(a)
            => /\ auctions[a].status = "Active"
               /\ auctions'[a].status \in Terminal
               /\ asset_vault(a)' = 0]_vars

(***************************************************************************)
(* C4: a successful settle_auction moves asset_amount to the recorded      *)
(* leader and current_bid to the recorded seller and sets Settled when the *)
(* reserve is met by a leader; otherwise it moves asset_amount to the      *)
(* recorded seller, current_bid to the recorded leader if there is one,    *)
(* and sets Failed -- whatever destination accounts the caller supplies.   *)
(***************************************************************************)
C4_expected_balances(a) ==
  LET auction == auctions[a]
      av == Ata(a, auction.asset_mint)
      pv == Ata(a, auction.payment_mint)
      leader_asset == Ata(auction.current_bidder, auction.asset_mint)
      leader_payment == Ata(auction.current_bidder, auction.payment_mint)
      seller_asset == Ata(auction.seller, auction.asset_mint)
      seller_payment == Ata(auction.seller, auction.payment_mint)
  IN IF reserve_met(auction)
     THEN Transfer(Transfer(bal, av, leader_asset, auction.asset_amount),
                   pv, seller_payment, auction.current_bid)
     ELSE IF auction.current_bidder # NoKey
          THEN Transfer(Transfer(bal, av, seller_asset, auction.asset_amount),
                        pv, leader_payment, auction.current_bid)
          ELSE Transfer(bal, av, seller_asset, auction.asset_amount)

C4_SettlePaysRecordedParties ==
  [][\A a \in AuctionKeys :
       SettledStep(a) =>
         /\ auctions'[a].status =
              IF reserve_met(auctions[a]) THEN "Settled" ELSE "Failed"
         /\ bal' = C4_expected_balances(a)]_vars

(***************************************************************************)
(* C5: after a successful settle_auction both vaults of the auction are    *)
(* empty.                                                                  *)
(***************************************************************************)
C5_VaultsEmptyAfterSettle ==
  [][\A a \in AuctionKeys :
       SettledStep(a) => asset_vault(a)' = 0 /\ payment_vault(a)' = 0]_vars

(***************************************************************************)
(* C6: an accepted place_bid that replaces a leader moves exactly the      *)
(* previous current_bid from the payment vault to the previous leader's    *)
(* own payment account, whatever accounts the new bidder supplies.         *)
(***************************************************************************)
C6_RefundToPreviousLeader ==
  [][\A a \in AuctionKeys :
       Placed(a) /\ has_leader(auctions[a]) =>
         LET t == Ata(auctions[a].current_bidder, auctions[a].payment_mint)
         IN bal'[t] = bal[t] + auctions[a].current_bid]_vars

(***************************************************************************)
(* C7: every accepted place_bid strictly increases current_bid: the first  *)
(* is >= starting_price, a later one >= current_bid + min_bid_increment;   *)
(* a bid below that floor is rejected with BidTooLow.                      *)
(***************************************************************************)
C7_true_floor(auction) ==
  IF auction.current_bid = 0
  THEN auction.starting_price
  ELSE auction.current_bid + auction.min_bid_increment

C7_MonotonicIncrement ==
  [][\A a \in AuctionKeys :
       /\ Placed(a) =>
            /\ auctions'[a].current_bid > auctions[a].current_bid
            /\ auctions'[a].current_bid >= C7_true_floor(auctions[a])
       /\ \A bidder \in Users, bid_amount \in BidAmounts,
             overflow_checks \in BOOLEAN :
            /\ auctions[a].init
            /\ ~bids[<<a, bidder>>].init
            /\ auctions[a].status = "Active"
            /\ clock >= auctions[a].start_time
            /\ clock < auctions[a].end_time
            /\ bidder # auctions[a].seller
            /\ bid_amount < C7_true_floor(auctions[a])
            => place_bid_checks(a, bidder, bid_amount, overflow_checks)
                 = "BidTooLow"]_vars

(***************************************************************************)
(* C8: after an accepted place_bid, current_bidder and current_bid are the *)
(* bidder and amount of that placement, and the payment vault holds the    *)
(* funds of that one leader only.                                          *)
(***************************************************************************)
C8_SingleLeader ==
  [][\A a \in AuctionKeys :
       Placed(a) =>
         \E b \in Users :
           /\ ~bids[<<a, b>>].init
           /\ bids'[<<a, b>>].init
           /\ auctions'[a].current_bidder = b
           /\ auctions'[a].current_bid = bids'[<<a, b>>].amount
           /\ payment_vault(a)' = auctions'[a].current_bid]_vars

(***************************************************************************)
(* C9: anti-snipe: an accepted place_bid at time now with                  *)
(* end_time - now < 600 sets end_time to now + 600; with                   *)
(* end_time - now >= 600 it leaves end_time unchanged.                     *)
(***************************************************************************)
C9_AntiSnipe ==
  [][\A a \in AuctionKeys :
       Placed(a) =>
         /\ auctions[a].end_time - clock < 600
              => auctions'[a].end_time = clock + 600
         /\ auctions[a].end_time - clock >= 600
              => auctions'[a].end_time = auctions[a].end_time]_vars

\* a bid placed 300 before the end has moved the end to now + 600
C9_Witness ==
  \E a \in AuctionKeys :
    /\ auctions[a].total_bids > 0
    /\ auctions[a].end_time = clock + 600
    /\ auctions[a].end_time - auctions[a].start_time = 3600 + 300

(***************************************************************************)
(* C10: the status moves only Created -> Active -> {Settled, Failed,       *)
(* Cancelled}: the three last are absorbing and nothing goes back to       *)
(* Created or Active.                                                      *)
(***************************************************************************)
C10_StatusMachine ==
  [][\A a \in AuctionKeys :
       /\ auctions[a].init => auctions'[a].init
       /\ auctions'[a].status # auctions[a].status
            => \/ /\ ~auctions[a].init
                  /\ auctions[a].status = "Created"
                  /\ auctions'[a].status = "Active"
               \/ /\ auctions[a].status = "Active"
                  /\ auctions'[a].status \in Terminal]_vars

\* an auction has gone Created -> Active -> Cancelled and its seller holds
\* the asset again, so that a new create_auction could be paid for
C10_Witness ==
  \E a \in AuctionKeys :
    /\ auctions[a].status = "Cancelled"
    /\ bal[Ata(auctions[a].seller, auctions[a].asset_mint)]
         >= auctions[a].asset_amount

(***************************************************************************)
(* C11: once the status of an auction is Settled, Failed or Cancelled, no  *)
(* instruction on it (place_bid, cancel_bid, settle_auction,               *)
(* cancel_auction, extend_auction) changes the balance of its asset vault  *)
(* or of its payment vault.                                                *)
(***************************************************************************)
C11_TerminalFrame ==
  [][\A a \in AuctionKeys :
       auctions[a].init /\ auctions[a].status \in Terminal =>
         /\ asset_vault(a)' = asset_vault(a)
         /\ payment_vault(a)' = payment_vault(a)]_vars

\* a terminal auction on which an instruction (cancel_bid) is still accepted
C11_Witness ==
  \E a \in AuctionKeys :
    /\ auctions[a].init
    /\ auctions[a].status \in Terminal
    /\ ENABLED CancelBid({a})

(***************************************************************************)
(* C12: settle_auction has no requirement on who calls it: from one state  *)
(* of the auction and one clock, two calls that differ only in the settler *)
(* end with the same status and the same balances (of the seller, the      *)
(* leader and both vaults).  Stated as: in no reachable state is there a   *)
(* call by s1 that succeeds and reaches a state that the same call by some *)
(* s2 does not reach.                                                      *)
(***************************************************************************)
C12_SettlerIndependence ==
  \A a \in AuctionKeys :
    auctions[a].init =>
      \A asset_mint \in Mints, payment_mint \in Mints,
         asset_account \in TokenAccounts, payment_account \in TokenAccounts,
         s1 \in Users :
        ~ENABLED
           /\ settle_auction(a, s1, asset_mint, payment_mint, asset_account,
                             payment_account, asset_account, payment_account)
           /\ \E s2 \in Users :
                ~settle_auction(a, s2, asset_mint, payment_mint, asset_account,
                                payment_account, asset_account, payment_account)

\* a settlement has paid the seller and handed the asset to a leader
C12_Witness ==
  \E a \in AuctionKeys :
    LET auction == auctions[a] IN
    /\ auction.status = "Settled"
    /\ auction.current_bidder \in Bidders
    /\ bal[Ata(auction.seller, auction.payment_mint)] = auction.current_bid
    /\ bal[Ata(auction.current_bidder, auction.asset_mint)]
         >= auction.asset_amount

(***************************************************************************)
(* C13: no single party can strand the funds in custody: if the clock      *)
(* keeps advancing and settle_auction is weakly fair, every created        *)
(* auction eventually reaches Settled, Failed or Cancelled, whatever the   *)
(* seller or a bidder does with extend_auction and place_bid.              *)
(***************************************************************************)
C13_EventuallyTerminal ==
  \A a \in AuctionKeys :
    auctions[a].init ~> auctions[a].status \in Terminal

(***************************************************************************)
(* C14: an instruction whose token transfer fails changes nothing, so      *)
(* every step is a whole instruction: a created auction has received its   *)
(* deposit and is Active; a step that neither changes the status nor       *)
(* records a bid moves no tokens; an accepted placement has recorded the   *)
(* bid and escrowed its amount, less the refund paid out -- no step        *)
(* refunds the previous leader without escrowing the new bid; a settlement *)
(* or cancellation writes nothing but the status and the balances.         *)
(***************************************************************************)
\* tokens of every mint held by the auction's own token accounts
C14_held(b, a) == b[Ata(a, "ASSET")] + b[Ata(a, "PAY")]

C15_expected(a, bidder, bid_amount) ==
  LET auction == auctions[a] IN
  CASE auction.status # "Active" -> "AuctionNotActive"
    [] clock < auction.start_time -> "AuctionNotStarted"
    [] clock >= auction.end_time -> "AuctionEnded"
    [] bidder = auction.seller -> "SellerCannotBid"
    [] bid_amount < C7_true_floor(auction) -> "BidTooLow"
    [] OTHER -> "Ok"

C15_PlaceBidPreconditions ==
  [][\A a \in AuctionKeys :
       /\ Placed(a) =>
            C15_expected(a, auctions'[a].current_bidder,
                         auctions'[a].current_bid) = "Ok"
       /\ \A bidder \in Users, bid_amount \in BidAmounts,
             overflow_checks \in BOOLEAN :
            auctions[a].init /\ ~bids[<<a, bidder>>].init =>
              place_bid_checks(a, bidder, bid_amount, overflow_checks)
                = C15_expected(a, bidder, bid_amount)
       /\ auctions[a].init /\ ~Placed(a) /\ auctions'[a].status = auctions[a].status
            => bal' = bal /\ bids' \in {bids} \cup
                 {[bids EXCEPT ![k].status = "Cancelled"] : k \in DOMAIN bids}]_vars

(***************************************************************************)
(* C16: on an Active auction inside its bidding window a place_bid by the  *)
(* auction's seller is rejected with SellerCannotBid for every bid amount, *)
(* so the seller is never current_bidder.                                  *)
(***************************************************************************)
C16_SellerCannotBid ==
  \A a \in AuctionKeys :
    LET auction == auctions[a] IN
    auction.init =>
      /\ auction.current_bidder # auction.seller
      /\ /\ auction.status = "Active"
         /\ auction.start_time <= clock
         /\ clock < auction.end_time
         => \A bid_amount \in BidAmounts, overflow_checks \in BOOLEAN :
              place_bid_checks(a, auction.seller, bid_amount, overflow_checks)
                = "SellerCannotBid"

\* a state where a bid of 160 is accepted from a bidder and refused from the
\* seller, with a leader already there
C16_Witness ==
  \E a \in AuctionKeys :
    /\ auctions[a].init
    /\ has_leader(auctions[a])
    /\ place_bid_checks(a, "bidder2", 160, FALSE) = "Ok"
    /\ place_bid_checks(a, auctions[a].seller, 160, FALSE) = "SellerCannotBid"

(***************************************************************************)
(* C17: cancel_auction succeeds only when the status is Created or Active, *)
(* the caller is the seller and total_bids = 0 or current_bid = 0; it is   *)
(* rejected with CannotCancelAuction on a terminal status, Unauthorized    *)
(* for a caller that is not the seller and HasActiveBids when              *)
(* total_bids > 0 and current_bid # 0; a rejected call changes nothing.    *)
(***************************************************************************)
C17_expected(a, authority) ==
  LET auction == auctions[a] IN
  CASE auction.status \in Terminal -> {"CannotCancelAuction"}
    [] authority # auction.seller -> {"Unauthorized"}
    [] auction.total_bids > 0 /\ auction.current_bid # 0 -> {"HasActiveBids"}
    [] OTHER -> {"Ok", "TransferFailed"}

C18_CancelReturnsAsset ==
  [][\A a \in AuctionKeys :
       LET auction == auctions[a] IN
       auction.init /\ auction.status # "Cancelled"
         /\ auctions'[a].status = "Cancelled"
         => /\ bal' = Transfer(bal, Ata(a, auction.asset_mint),
                               Ata(auction.seller, auction.asset_mint),
                               auction.asset_amount)
            /\ asset_vault(a)' = asset_vault(a) - auction.asset_amount
            /\ payment_vault(a) = 0
            /\ payment_vault(a)' = 0
            /\ auctions'[a] = [auction EXCEPT !.status = "Cancelled"]]_vars

(***************************************************************************)
(* C19: cancel_bid succeeds only when the caller is the Bid's own bidder,  *)
(* the Bid's status is Active and the bidder is not the auction's          *)
(* current_bidder unless the auction is Cancelled; otherwise it is         *)
(* rejected with Unauthorized, BidNotActive (a second cancel of the same   *)
(* Bid included) or CannotCancelWinningBid, and the Bid is unchanged.      *)
(***************************************************************************)
\* what a call by `caller` on the existing Bid account `bid_key` returns
C19_returned(a, caller, bid_key) ==
  IF cancel_bid_accounts(a, caller, bid_key) # "Ok"
  THEN cancel_bid_accounts(a, caller, bid_key)
  ELSE cancel_bid_result(a, caller)

C19_expected(a, caller, bid_key) ==
  LET bid == bids[bid_key]
      auction == auctions[a]
  IN CASE bid.bidder # caller -> "Unauthorized"
       [] bid.status # "Active" -> "BidNotActive"
       [] auction.current_bidder = bid.bidder /\ auction.status # "Cancelled"
            -> "CannotCancelWinningBid"
       [] OTHER -> "Ok"

C19_CancelBidPreconditions ==
  \A a \in AuctionKeys, caller \in Users, owner \in Users :
    bids[<<a, owner>>].init =>
      C19_returned(a, caller, <<a, owner>>)
        = C19_expected(a, caller, <<a, owner>>)

(***************************************************************************)
(* C20: a successful cancel_bid changes only the status of that Bid, from  *)
(* Active to Cancelled: the auction record, every other Bid and every      *)
(* token balance (both vaults, the bidder's own payment balance) are       *)
(* unchanged.                                                              *)
(***************************************************************************)
C20_CancelBidFrame ==
  [][\A k \in DOMAIN bids :
       bids[k].init /\ bids'[k] # bids[k]
         => /\ bids[k].status = "Active"
            /\ bids' = [bids EXCEPT ![k].status = "Cancelled"]
            /\ auctions' = auctions
            /\ bal' = bal
            /\ clock' = clock]_vars

\* an outbid bidder has cancelled the Bid while the auction goes on with the
\* new leader's bid in the vault
C20_Witness ==
  \E a \in AuctionKeys, b \in Bidders :
    /\ bids[<<a, b>>].status = "Cancelled"
    /\ auctions[a].status = "Active"
    /\ auctions[a].total_bids = 2
    /\ auctions[a].current_bidder # b
    /\ payment_vault(a) = auctions[a].current_bid

(***************************************************************************)
(* C21: settle_auction is rejected with AuctionNotActive when the status   *)
(* is not Active and with AuctionNotEnded when now < end_time; hence an    *)
(* auction is settled at most once and never before its (possibly          *)
(* extended) end time.                                                     *)
(***************************************************************************)
C21_expected(a) ==
  CASE auctions[a].status # "Active" -> "AuctionNotActive"
    [] clock < auctions[a].end_time -> "AuctionNotEnded"
    [] OTHER -> "Ok"

C21_SettleOnceAfterEnd ==
  [][\A a \in AuctionKeys :
       auctions[a].init =>
         /\ settle_auction_checks(a) = C21_expected(a)
         /\ auctions'[a].status \in {"Settled", "Failed"}
              /\ auctions'[a].status # auctions[a].status
              => /\ auctions[a].status = "Active"
                 /\ clock >= auctions[a].end_time
         /\ clock < auctions[a].end_time \/ auctions[a].status # "Active"
              => ~ENABLED SettleAuction({a})]_vars

\* an auction whose end was moved has been settled, after the new end
C21_Witness ==
  \E a \in AuctionKeys :
    /\ auctions[a].status \in {"Settled", "Failed"}
    /\ auctions[a].end_time - auctions[a].start_time > MIN_DURATION
    /\ clock >= auctions[a].end_time

(***************************************************************************)
(* C22: extend_auction succeeds only when the status is Active, the caller *)
(* is the seller, new_end_time > end_time and now < end_time, and then     *)
(* changes only end_time, to new_end_time; otherwise it is rejected with   *)
(* AuctionNotActive, Unauthorized, InvalidEndTime or AuctionEnded and      *)
(* changes nothing.                                                        *)
(***************************************************************************)
C22_expected(a, caller, new_end_time) ==
  LET auction == auctions[a] IN
  CASE auction.status # "Active" -> "AuctionNotActive"
    [] caller # auction.seller -> "Unauthorized"
    [] new_end_time <= auction.end_time -> "InvalidEndTime"
    [] clock >= auction.end_time -> "AuctionEnded"
    [] OTHER -> "Ok"

C22_ExtendPreconditions ==
  [][\A a \in AuctionKeys :
       auctions[a].init =>
         /\ \A caller \in Users, d \in ExtendOffsets :
              extend_auction_result(a, caller, auctions[a].end_time + d)
                = C22_expected(a, caller, auctions[a].end_time + d)
         /\ auctions'[a].end_time # auctions[a].end_time /\ ~Placed(a)
              => /\ auctions[a].status = "Active"
                 /\ auctions'[a].end_time > auctions[a].end_time
                 /\ clock < auctions[a].end_time
                 /\ auctions'[a] =
                      [auctions[a] EXCEPT !.end_time = auctions'[a].end_time]
                 /\ UNCHANGED <<clock, bids, bal>>]_vars

(***************************************************************************)
(* C23: over any interleaving of manual extensions (extend_auction) and    *)
(* anti-snipe extensions (place_bid) end_time never decreases: each step   *)
(* leaves it unchanged or strictly increases it, and each kind of          *)
(* extension stays applicable after the other: while the auction is Active *)
(* and not ended the seller may extend it whatever bids came before, and   *)
(* an accepted bid in the last 600 moves the end whatever extensions came  *)
(* before.                                                                 *)
(***************************************************************************)
C23_EndTimeMonotonic ==
  [][\A a \in AuctionKeys :
       auctions[a].init =>
         /\ auctions'[a].end_time >= auctions[a].end_time
         /\ auctions[a].status = "Active" /\ clock < auctions[a].end_time
              => extend_auction_result(a, auctions[a].seller,
                                       auctions[a].end_time + 1) = "Ok"
         /\ Placed(a) /\ auctions[a].end_time - clock < EXTENSION_THRESHOLD
              => auctions'[a].end_time > auctions[a].end_time]_vars

\* anti-snipe, manual, anti-snipe: a bid 300 before the end (+300), an
\* extension by 600, and a second bid 300 before the new end (+300)
C23_Witness ==
  \E a \in AuctionKeys :
    /\ auctions[a].total_bids = 2
    /\ auctions[a].end_time = clock + EXTENSION_THRESHOLD
    /\ auctions[a].end_time - auctions[a].start_time
         = MIN_DURATION + 300 + 600 + 300

(***************************************************************************)
(* C24: create_auction rejects, creating no auction and moving no asset:   *)
(* asset_amount = 0 (InvalidAmount), starting_price = 0 (InvalidPrice),    *)
(* reserve_price < starting_price (InvalidReservePrice),                   *)
(* min_bid_increment = 0 (InvalidIncrement), start_time < now              *)
(* (InvalidStartTime), end_time <= start_time (InvalidEndTime),            *)
(* end_time - start_time < 3600 (AuctionTooShort); every other input is    *)
(* accepted when the asset transfer succeeds.  Stated for a new auction    *)
(* account and two different mints, over the arguments C24_Args and those  *)
(* of CreateArgs.                                                          *)
(***************************************************************************)
\* <<asset_amount, starting_price, reserve_price, min_bid_increment,
\*   start_time - now, end_time - start_time>>
C24_Args ==
  {0, AssetLot, AssetLot + 1} \X {0, 100} \X {50, 100, 150} \X {0, 10}
    \X {-600, 0, 600} \X {-1, 0, 3300, 3599, 3600}

\* the errors whose condition the arguments meet
C24_violated(x) ==
  {e \in {"InvalidAmount", "InvalidPrice", "InvalidReservePrice",
          "InvalidIncrement", "InvalidStartTime", "InvalidEndTime",
          "AuctionTooShort"} :
     \/ e = "InvalidAmount" /\ x[1] = 0
     \/ e = "InvalidPrice" /\ x[2] = 0
     \/ e = "InvalidReservePrice" /\ x[3] < x[2]
     \/ e = "InvalidIncrement" /\ x[4] = 0
     \/ e = "InvalidStartTime" /\ x[5] < 0
     \/ e = "InvalidEndTime" /\ x[6] <= 0
     \/ e = "AuctionTooShort" /\ x[6] < 3600}

C24_CreateRejections ==
  \A a \in AuctionKeys, seller \in Sellers,
     x \in C24_Args \cup {<<y[3], y[4], y[5], y[6], y[7], y[8]>> :
                             y \in {z \in CreateArgs : z[1] = "ASSET" /\ z[2] = "PAY"}} :
    ~auctions[a].init =>
      LET res == create_auction_result(a, seller, "ASSET", "PAY", x[1], x[2],
                   x[3], x[4], clock + x[5], clock + x[5] + x[6])
          paid == TransferOk(bal, Ata(seller, "ASSET"), Ata(a, "ASSET"),
                             "ASSET", x[1])
      IN /\ C24_violated(x) # {} => res \in C24_violated(x)
         /\ C24_violated(x) = {} => res = IF paid THEN "Ok" ELSE "TransferFailed"
         /\ res # "Ok" =>
              ~ENABLED create_auction(a, seller, "ASSET", "PAY", x[1], x[2],
                         x[3], x[4], clock + x[5], clock + x[5] + x[6])

\* no auction yet: a sale of 3599 time units is refused, the same sale
\* lasting 3600 is accepted
C24_Witness ==
  \E a \in AuctionKeys :
    /\ ~auctions[a].init
    /\ create_auction_result(a, "seller", "ASSET", "PAY", AssetLot, 100, 150,
                             10, clock, clock + 3599) = "AuctionTooShort"
    /\ create_auction_result(a, "seller", "ASSET", "PAY", AssetLot, 100, 150,
                             10, clock, clock + 3600) = "Ok"

(***************************************************************************)
(* C25: a successful create_auction yields an auction with status Active,  *)
(* current_bid = 0, no current bidder, total_bids = 0 and an asset vault   *)
(* holding exactly asset_amount, taken from the seller; no auction with    *)
(* status Created is observable after any completed instruction.           *)
(***************************************************************************)
C25_CreatedAuction ==
  [][\A a \in AuctionKeys :
       /\ auctions'[a].init => auctions'[a].status # "Created"
       /\ ~auctions[a].init /\ auctions'[a].init
            => LET auction == auctions'[a] IN
               /\ auction.status = "Active"
               /\ auction.current_bid = 0
               /\ auction.current_bidder = NoKey
               /\ auction.total_bids = 0
               /\ bal'[Ata(a, auction.asset_mint)] = auction.asset_amount
               /\ bal' = Transfer(bal, Ata(auction.seller, auction.asset_mint),
                                  Ata(a, auction.asset_mint),
                                  auction.asset_amount)]_vars

\* a new auction: Active, no bid, the seller's lot in its asset vault
C25_Witness ==
  \E a \in AuctionKeys :
    LET t == Ata(auctions[a].seller, auctions[a].asset_mint) IN
    /\ auctions[a].init
    /\ auctions[a].status = "Active"
    /\ auctions[a].total_bids = 0
    /\ asset_vault(a) = auctions[a].asset_amount
    /\ bal[t] = InitBal[t] - auctions[a].asset_amount

(***************************************************************************)
(* C26: every auction record in every reachable state has                  *)
(* reserve_price >= starting_price, end_time > start_time and              *)
(* end_time - start_time >= 3600, and its asset_amount is the one given at *)
(* creation: no later instruction changes it.                              *)
(***************************************************************************)
C26_RecordInvariants ==
  [][\A a \in AuctionKeys :
       /\ auctions'[a].init
            => /\ auctions'[a].reserve_price >= auctions'[a].starting_price
               /\ auctions'[a].end_time > auctions'[a].start_time
               /\ auctions'[a].end_time - auctions'[a].start_time >= 3600
       /\ auctions[a].init
            => auctions'[a].asset_amount = auctions[a].asset_amount]_vars

\* an auction that was bid on, extended and settled still has its lot size
C26_Witness ==
  \E a \in AuctionKeys :
    /\ auctions[a].status \in {"Settled", "Failed"}
    /\ auctions[a].total_bids > 0
    /\ auctions[a].end_time - auctions[a].start_time > 3600
    /\ auctions[a].asset_amount = AssetLot

(***************************************************************************)
(* C27: in every reachable state of an auction, current_bid = 0 if and     *)
(* only if the auction has no current bidder (current_bidder is            *)
(* Pubkey::default()).                                                     *)
(***************************************************************************)
C27_BidIffBidder ==
  \A a \in AuctionKeys :
    auctions[a].init =>
      (auctions[a].current_bid = 0 <=> auctions[a].current_bidder = NoKey)

(***************************************************************************)
(* C28: for every auction and every bidder there is at most one Bid        *)
(* record, created by that bidder's first accepted place_bid on that       *)
(* auction: a record appears only in an accepted place_bid of its bidder   *)
(* and carries that bid; it stays the record of that auction and bidder    *)
(* for ever (no two records of one auction name the same bidder), and an   *)
(* auction has no more records than accepted bids.                         *)
(***************************************************************************)
C28_records(a) == {b \in Users : bids[<<a, b>>].init}

C28_OneBidPerBidder ==
  [][\A a \in AuctionKeys :
       /\ Cardinality(C28_records(a))' <= auctions'[a].total_bids
       /\ \A b \in Users :
            LET old == bids[<<a, b>>]
                new == bids'[<<a, b>>]
            IN /\ new.init => new.auction = a /\ new.bidder = b
               /\ old.init => new.init
               /\ ~old.init /\ new.init
                    => /\ Placed(a)
                       /\ auctions'[a].current_bidder = b
                       /\ new.amount = auctions'[a].current_bid]_vars

\* both bidders have their record on the auction, each under its own name
C28_Witness ==
  \E a \in AuctionKeys :
    /\ auctions[a].total_bids = 2
    /\ C28_records(a) = Bidders
    /\ \A b \in Bidders : bids[<<a, b>>].bidder = b /\ bids[<<a, b>>].auction = a
    /\ \E b \in Bidders : bids[<<a, b>>].amount # auctions[a].current_bid

(***************************************************************************)
(* C29: a place_bid by the current leader with an amount of at least       *)
(* current_bid + min_bid_increment, in the bidding window of an Active     *)
(* auction, is accepted: the leader's previous amount is refunded to them  *)
(* and the larger amount is put in escrow; current_bidder is unchanged,    *)
(* current_bid and the payment vault equal the new amount.  Stated for a   *)
(* leader that can pay and a vault that holds the leading bid.             *)
(***************************************************************************)
C29_LeaderRebid ==
  \A a \in AuctionKeys, bid_amount \in BidAmounts, overflow_checks \in BOOLEAN :
    LET auction == auctions[a]
        leader == auction.current_bidder
        account == Ata(leader, auction.payment_mint)
    IN /\ auction.init
       /\ auction.status = "Active"
       /\ clock >= auction.start_time
       /\ clock < auction.end_time
       /\ has_leader(auction)
       /\ leader # auction.seller
       /\ bid_amount >= auction.current_bid + auction.min_bid_increment
       /\ payment_vault(a) = auction.current_bid
       /\ bal[account] + auction.current_bid >= bid_amount
       => /\ place_bid_checks(a, leader, bid_amount, overflow_checks) = "Ok"
          /\ ENABLED /\ place_bid(a, leader, auction.payment_mint, account,
                                  bid_amount, overflow_checks)
                     /\ auctions'[a].current_bidder = leader
                     /\ auctions'[a].current_bid = bid_amount
                     /\ payment_vault(a)' = bid_amount
                     /\ bal'[account]
                          = bal[account] + auction.current_bid - bid_amount

(***************************************************************************)
(* C30: an instruction on one auction never changes another auction's      *)
(* record, the other auction's Bid records or the balance of either of the *)
(* other auction's vaults (no debit and no credit), whatever accounts the  *)
(* caller passes: every step leaves all auctions but one as they were.     *)
(***************************************************************************)
C30_footprint(b) ==
  <<auctions[b], [u \in Users |-> bids[<<b, u>>]], asset_vault(b),
    payment_vault(b)>>

C30_Independence ==
  [][\E a \in AuctionKeys2 :
       \A b \in AuctionKeys2 \ {a} :
         auctions[b].init => C30_footprint(b)' = C30_footprint(b)]_vars

(***************************************************************************)
(* C31: total_bids never decreases; it grows by exactly one in each        *)
(* accepted place_bid (the step that creates a Bid record of the auction)  *)
(* and in no other step, so that it is the number of accepted placements   *)
(* on the auction.                                                         *)
(***************************************************************************)
\* the accepted placements so far: each one created its Bid record
C31_placements(a) == {b \in Users : bids[<<a, b>>].init}

C31_TotalBidsCounts ==
  [][\A a \in AuctionKeys :
       LET placed == C31_placements(a)' \ C31_placements(a) IN
       /\ auctions'[a].total_bids >= auctions[a].total_bids
       /\ Cardinality(placed) <= 1
       /\ auctions'[a].total_bids
            = auctions[a].total_bids + Cardinality(placed)
       /\ auctions'[a].total_bids = Cardinality(C31_placements(a)')]_vars

\* two placements were accepted, one bid was cancelled since, the auction
\* was settled: the counter is two
C31_Witness ==
  \E a \in AuctionKeys :
    /\ auctions[a].status \in {"Settled", "Failed"}
    /\ auctions[a].total_bids = 2
    /\ Cardinality(C31_placements(a)) = 2
    /\ \E b \in Users : bids[<<a, b>>].init /\ bids[<<a, b>>].status = "Cancelled"

(***************************************************************************)
(* C32: in every reachable state the status of every Bid is Active or      *)
(* Cancelled: being outbid and refunded, winning at a settlement or being  *)
(* refunded at a failed settlement changes no Bid's status (Outbid, Won    *)
(* and Refunded are never assigned).                                       *)
(***************************************************************************)
C32_BidStatusUnused ==
  [][\A a \in AuctionKeys, b \in Users :
       LET old == bids[<<a, b>>]
           new == bids'[<<a, b>>]
       IN /\ new.status \in {"Active", "Cancelled"}
          /\ old.init /\ (Placed(a) \/ SettledStep(a))
               => new.status = old.status]_vars

\* a settled auction with two bids: the winner's Bid and the Bid of the
\* bidder that was outbid and refunded are both Active still
C32_Witness ==
  \E a \in AuctionKeys :
    /\ auctions[a].status = "Settled"
    /\ auctions[a].total_bids = 2
    /\ \A b \in Bidders : bids[<<a, b>>].init /\ bids[<<a, b>>].status = "Active"

(***************************************************************************)
(* C33: once a place_bid has been accepted on an auction, cancel_auction   *)
(* never succeeds on it again: current_bid does not return to 0 while the  *)
(* auction is Active, so the seller's call is rejected with HasActiveBids. *)
(* Hence every Cancelled auction has total_bids = 0, current_bid = 0 and   *)
(* no Bid record, and cancel_bid is never accepted on a Cancelled auction. *)
(***************************************************************************)
C33_NoCancelAfterBid ==
  \A a \in AuctionKeys :
    LET auction == auctions[a] IN
    auction.init =>
      /\ auction.status = "Active" /\ auction.total_bids > 0
           => /\ auction.current_bid # 0
              /\ \A asset_mint \in Mints :
                   cancel_auction_result(a, auction.seller, asset_mint)
                     = "HasActiveBids"
      /\ auction.status = "Cancelled"
           => /\ auction.total_bids = 0
              /\ auction.current_bid = 0
              /\ \A b \in Users : ~bids[<<a, b>>].init
              /\ \A b \in Users : cancel_bid_result(a, b) # "Ok"

(***************************************************************************)
(* C34: a bidder whose bid was once accepted on an auction never has       *)
(* another bid accepted on it, outbid or not, with the Bid cancelled or    *)
(* not: the Bid record exists and is never removed, and the account of a   *)
(* new placement cannot be created.  Hence total_bids never exceeds the    *)
(* number of distinct bidders of the auction.                              *)
(***************************************************************************)
C34_OneBidEach ==
  [][\A a \in AuctionKeys :
       /\ \A b \in Users :
            bids[<<a, b>>].init
              => /\ bids'[<<a, b>>].init
                 /\ \A bid_amount \in BidAmounts, overflow_checks \in BOOLEAN :
                      place_bid_checks(a, b, bid_amount, overflow_checks)
                        = "AccountAlreadyInUse"
                 /\ Placed(a) => auctions'[a].current_bidder # b
       /\ auctions'[a].total_bids
            <= Cardinality({b \in Users \ {auctions'[a].seller} :
                              bids'[<<a, b>>].init})]_vars

\* the bidder that was outbid has cancelled its Bid and offers enough to lead
\* again, in the bidding window: the placement is refused
C34_Witness ==
  \E a \in AuctionKeys, b \in Bidders :
    /\ auctions[a].status = "Active"
    /\ auctions[a].current_bidder \in Bidders \ {b}
    /\ bids[<<a, b>>].init
    /\ bids[<<a, b>>].status = "Cancelled"
    /\ clock < auctions[a].end_time
    /\ 160 >= bid_floor(auctions[a])
    /\ bal[Ata(b, auctions[a].payment_mint)] >= 160
    /\ place_bid_checks(a, b, 160, FALSE) = "AccountAlreadyInUse"

(***************************************************************************)
(* C35: once the clock has reached end_time on an Active auction, end_time *)
(* is frozen: every later place_bid and extend_auction is rejected with    *)
(* AuctionEnded, and settle_auction stays enabled until the auction leaves *)
(* Active; at no clock value do the time condition of place_bid            *)
(* (now < end_time) and the one of settle_auction (now >= end_time) both   *)
(* hold.                                                                   *)
(***************************************************************************)
C35_FrozenAfterEnd ==
  [][\A a \in AuctionKeys :
       LET auction == auctions[a] IN
       auction.init /\ auction.status = "Active"
         => /\ ~(/\ settle_auction_checks(a) = "Ok"
                 /\ \E bidder \in Users, bid_amount \in BidAmounts :
                      place_bid_checks(a, bidder, bid_amount, FALSE) = "Ok")
            /\ clock >= auction.end_time
                 => /\ auctions'[a].end_time = auction.end_time
                    /\ \A bidder \in Users, bid_amount \in BidAmounts,
                          overflow_checks \in BOOLEAN :
                         place_bid_checks(a, bidder, bid_amount,
                                          overflow_checks) = "AuctionEnded"
                    /\ \A caller \in Users, d \in ExtendOffsets :
                         extend_auction_result(a, caller, auction.end_time + d)
                           = "AuctionEnded"
                    /\ ENABLED SettleAuction({a})]_vars

(***************************************************************************)
(* C36: after settle_auction (Settled or Failed) the auction's current_bid *)
(* and current_bidder keep the values they had before the settlement, so   *)
(* cancel_bid by the final leader is rejected with CannotCancelWinningBid  *)
(* for ever and that Bid stays Active, while every other bidder whose Bid  *)
(* is Active can still cancel it.                                          *)
(***************************************************************************)
C36_LeaderKeptAfterSettle ==
  [][\A a \in AuctionKeys :
       LET auction == auctions[a] IN
       /\ SettledStep(a) \/ auction.status \in {"Settled", "Failed"}
            => /\ auctions'[a].current_bid = auction.current_bid
               /\ auctions'[a].current_bidder = auction.current_bidder
       /\ auction.status \in {"Settled", "Failed"}
            => \A b \in Users :
                 bids[<<a, b>>].init /\ bids[<<a, b>>].status = "Active"
                   => IF b = auction.current_bidder
                      THEN /\ cancel_bid_result(a, b) = "CannotCancelWinningBid"
                           /\ ~ENABLED cancel_bid(a, b)
                           /\ bids'[<<a, b>>].status = "Active"
                      ELSE /\ cancel_bid_accounts(a, b, <<a, b>>) = "Ok"
                           /\ cancel_bid_result(a, b) = "Ok"
                           /\ ENABLED cancel_bid(a, b)
       /\ auction.status \in {"Settled", "Failed"}
            /\ auction.current_bidder # NoKey
            => /\ bids[<<a, auction.current_bidder>>].init
               /\ bids[<<a, auction.current_bidder>>].status = "Active"]_vars

\* a settled auction with two bids: the leader's cancellation is refused,
\* the other bidder's is accepted
C36_Witness ==
  \E a \in AuctionKeys, b \in Bidders :
    /\ auctions[a].status \in {"Settled", "Failed"}
    /\ auctions[a].current_bidder \in Bidders \ {b}
    /\ auctions[a].current_bid > 0
    /\ cancel_bid_result(a, auctions[a].current_bidder)
         = "CannotCancelWinningBid"
    /\ cancel_bid_result(a, b) = "Ok"

(***************************************************************************)
(* C37: every token movement of an auction uses the token types of its     *)
(* record: place_bid puts in escrow and refunds only tokens of             *)
(* auction.payment_mint, settle_auction and cancel_auction pay out only    *)
(* auction.asset_mint (the lot) and auction.payment_mint (the leading      *)
(* bid); an instruction that is given another token type, and the vault of *)
(* that type, is rejected.                                                 *)
(***************************************************************************)
\* the token accounts whose balance the step changes
C37_moved == {t \in TokenAccounts : bal'[t] # bal[t]}

C37_RecordedMints ==
  [][\A a \in AuctionKeys :
       LET auction == auctions[a] IN
       auction.init =>
         /\ Placed(a) => \A t \in C37_moved : t[2] = auction.payment_mint
         /\ auction.status = "Active" /\ auctions'[a].status = "Cancelled"
              => \A t \in C37_moved : t[2] = auction.asset_mint
         /\ \A bidder \in Users, payment_mint \in Mints \ {auction.payment_mint},
               account \in TokenAccounts, bid_amount \in BidAmounts :
              ~ENABLED place_bid(a, bidder, payment_mint, account, bid_amount,
                                 FALSE)
         /\ \A authority \in Users, asset_mint \in Mints \ {auction.asset_mint} :
              ~ENABLED cancel_auction(a, authority, asset_mint)
         /\ \A asset_mint \in Mints, payment_mint \in Mints,
               asset_account \in TokenAccounts, payment_account \in TokenAccounts :
              <<asset_mint, payment_mint>>
                  # <<auction.asset_mint, auction.payment_mint>>
                => ~ENABLED settle_auction(a, auction.seller, asset_mint,
                                           payment_mint, asset_account,
                                           payment_account, asset_account,
                                           payment_account)]_vars

(***************************************************************************)
(* C38: the bid floor is computed without wrap-around in 64-bit unsigned   *)
(* arithmetic: when current_bid + min_bid_increment exceeds 2^64 - 1,      *)
(* place_bid accepts no bid (the amount is never compared with a wrapped,  *)
(* smaller floor), so an accepted bid is never below the true sum.         *)
(***************************************************************************)
C38_FloorDoesNotWrap ==
  [][\A a \in AuctionKeys :
       LET auction == auctions[a] IN
       auction.init =>
         /\ floor_overflows(auction)
              => /\ \A bidder \in Users, bid_amount \in BidAmounts,
                       overflow_checks \in BOOLEAN :
                      place_bid_checks(a, bidder, bid_amount, overflow_checks)
                        # "Ok"
                 /\ ~Placed(a)
         /\ Placed(a) /\ auction.current_bid # 0
              => auctions'[a].current_bid
                   >= auction.current_bid + auction.min_bid_increment]_vars

====
